---- MODULE Spec2Model ----
(***************************************************************************)
(* Upload intake, metadata index and retrieval of the Rouelment upload     *)
(* service.  The repository holds several variants of the same server:     *)
(*   "auth"      src/index.js:1-153     verifyToken gate, readFileSync /   *)
(*                                      writeFileSync on metadata.json,    *)
(*                                      download from the upload directory *)
(*   "sync"      src/unnamed/part_000   the same without the gate          *)
(*   "async"     src/index.js:155-362   ImageKit CDN, awaited readFile /   *)
(*                                      writeFile on metadata.json         *)
(*   "firestore" src/unnamed/part_002   ImageKit CDN, Firestore collection *)
(* One service instance runs one variant; the variant is fixed in Init.    *)
(*                                                                         *)
(* File names and keys are sequences of chunks.  A chunk is a piece of the *)
(* string: "." is the one-character dot, ":" a character that is illegal   *)
(* in file names, the other chunks are words that hold neither ("r",       *)
(* "pdf", ...), except "metadata.json" which holds one inner dot.  The     *)
(* string is the concatenation of its chunks, so a position where two      *)
(* dots meet is a position where two "." chunks meet.                      *)
(***************************************************************************)
EXTENDS Integers, Sequences, FiniteSets, TLC

\* ----------------------------------------------------------------- bounds
NReq == 3          \* number of requests a behaviour issues one after the other
NConc == 2         \* number of requests a behaviour issues concurrently
NRetr == 1         \* retrievals that follow the upload in mode "names"
MaxClock == 1      \* Date.now() ranges over 0..MaxClock
MaxRand == 1       \* Math.round(Math.random() * 1e9) ranges over 0..MaxRand
MaxNameLen == 4    \* chunks in a declared file name
MaxBoots == 2      \* restarts of the process in mode "restart"
NBootReq == 2      \* number of requests a behaviour issues in mode "restart"
NPingReq == 1      \* number of requests a behaviour issues in mode "ping"
MaxPings == 2      \* pings that complete in mode "ping"
RandSteps == 12    \* Math.random() ranges over 0/RandSteps..(RandSteps-1)/RandSteps

Reqs == 1..NReq

\* ------------------------------------------------------- names and keys
Alphabet == {"r", ".", ":", "pdf", "PDF", "exe"}

\* every declared name of 1..MaxNameLen chunks
AllNames == UNION {[1..n -> Alphabet] : n \in 1..MaxNameLen}

\* the names used when several uploads run concurrently
FewNames == {<<"r", ".", "pdf">>, <<"r", ".", ".", "pdf">>, <<"r", ".", "exe">>}

\* String.prototype.toLowerCase, chunk by chunk
toLowerCase(s) == [i \in 1..Len(s) |-> IF s[i] = "PDF" THEN "pdf" ELSE s[i]]

\* String.prototype.includes("..")
includesDotDot(s) == \E i \in 1..(Len(s) - 1) : s[i] = "." /\ s[i + 1] = "."

\* path.extname on a name without path separators: the text from the last
\* dot on; empty when there is no dot, when the last dot is the first
\* character, and for the name "..".
extname(s) ==
    LET dots == {i \in 1..Len(s) : s[i] = "."}
    IN  IF dots = {} THEN <<>>
        ELSE LET startDot == CHOOSE i \in dots : \A j \in dots : j <= i
                 onlyDotsBefore == \A j \in 1..(startDot - 1) : s[j] = "."
             IN  IF startDot = 1 THEN <<>>
                 ELSE IF onlyDotsBefore /\ startDot = Len(s) /\ startDot = 2
                      THEN <<>>
                      ELSE SubSeq(s, startDot, Len(s))

allowedExt == {<<".", e>> : e \in {"pdf", "doc", "docx", "xls", "xlsx", "csv"}}

\* fileFilter without the test of the extension
fileFilter_noCheck(originalname) == TRUE

\* fileFilter: TRUE when the file is accepted
fileFilter(originalname) == toLowerCase(extname(originalname)) \in allowedExt

\* sanitize-filename: illegal characters are removed, a name made of dots
\* only becomes empty, trailing dots are removed.
RECURSIVE stripTrailingDots(_)
stripTrailingDots(s) ==
    IF s # <<>> /\ s[Len(s)] = "." THEN stripTrailingDots(SubSeq(s, 1, Len(s) - 1))
    ELSE s

sanitize(s) ==
    LET legal == SelectSeq(s, LAMBDA c : c # ":")
    IN  stripTrailingDots(legal)

\* multer.diskStorage filename: `${Date.now()}-${random}-${original}`
filename(now, rnd, originalname) ==
    <<ToString(now), "-", ToString(rnd), "-">> \o sanitize(originalname)


\* ------------------------------------------------------------------ state
VARIABLES
    mode,        \* "conc": NConc concurrent requests, names from FewNames;
                 \* "seq": NReq requests one after the other, names from FewNames;
                 \* "names": one upload with a name from AllNames, then
                 \* NRetr retrievals, one after the other
                 \* "restart": as "seq", and the process may restart
                 \* "ping": as "seq", and the keep-alive loop runs
    variant,     \* which server of the repository runs
    boots,       \* how many times the process has restarted
    ping,        \* the keep-alive loop: GETs in flight, timers pending, the
                 \* delay of the last timer (ms), pings completed, and
                 \* whether the last GET succeeded
    clock,       \* the latest time read from the system clock
    metaFile,    \* uploads/metadata.json: [ok, recs]; ok = FALSE when the
                 \* file holds no complete JSON document (truncated)
    uploads,     \* the Firestore collection "uploads", in order of add
    disk,        \* names of the files in UPLOAD_DIR (besides metadata.json)
    cdn,         \* names of the files held by ImageKit
    req          \* per request: input, position in its handler, response

vars == <<mode, variant, boots, ping, clock, metaFile, uploads, disk, cdn, req>>

Variants == {"auth", "sync", "async", "firestore"}
LocalDisk == {"auth", "sync"}     \* blobs stay in UPLOAD_DIR
Cdn == {"async", "firestore"}     \* blobs go to ImageKit

\* req.headers.authorization: absent, "Bearer <token>", or the same after a
\* leading space (the only values that pass the first test of verifyToken)
NoHeader == <<>>
Headers == {NoHeader, <<"Bearer ", "good">>, <<"Bearer ", "bad">>,
            <<" ", "Bearer ", "good">>, <<" ", "Bearer ", "bad">>}

IdleReq ==
    [kind |-> "none", pc |-> "idle", hasFile |-> FALSE, name |-> <<>>,
     header |-> NoHeader, key |-> <<>>, storedAs |-> <<>>, receivedAt |-> 0,
     meta |-> <<>>, status |-> 0, body |-> <<>>,
     lookups |-> 0, blobFailed |-> FALSE, idxFailed |-> FALSE,
     idxWrites |-> 0, pushes |-> 0, emits |-> 0,
     roundtrip |-> FALSE, indexed |-> FALSE,
     user |-> "none", pushRejected |-> FALSE, emitThrew |-> FALSE,
     torn |-> FALSE, boot |-> 0, unlinkFailed |-> FALSE, responses |-> 0]

EmptyMeta == [ok |-> TRUE, recs |-> <<>>]      \* JSON.stringify([])
Truncated == [ok |-> FALSE, recs |-> <<>>]     \* opened with flag "w", not yet written

\* start-up that writes the empty list whether the file exists or not
StartUp_overwrite(exists, file) == EmptyMeta

\* start-up: if (!fs.existsSync(META_FILE)) fs.writeFileSync(META_FILE, "[]")
StartUp(exists, file) == IF ~exists THEN EmptyMeta ELSE file

\* the first start finds no uploads/metadata.json
InitCommon ==
    /\ variant \in Variants
    /\ boots = 0
    /\ ping = [gets |-> IF variant \in Cdn THEN 1 ELSE 0, timers |-> 0,
               delay |-> 0, count |-> 0, lastOk |-> TRUE]
    /\ clock = 0
    /\ metaFile = StartUp(FALSE, Truncated)
    /\ uploads = <<>>
    /\ disk = {}
    /\ cdn = {}
    /\ req = [r \in Reqs |-> IdleReq]

Init == mode = "conc" /\ InitCommon
InitSeq == mode = "seq" /\ InitCommon
InitNames == mode = "names" /\ InitCommon
InitRestart == mode = "restart" /\ InitCommon
InitPing == mode = "ping" /\ InitCommon

\* ---------------------------------------------------------------- helpers
InFlight(r) == req[r].pc \notin {"idle", "done", "dropped"}

Range(s) == {s[i] : i \in 1..Len(s)}

\* the record an upload appends
Record(r, id, now) ==
    [id |-> id, rid |-> r, originalName |-> req[r].name,
     storedAs |-> req[r].storedAs, receivedAt |-> now]

\* res.status(s) and the end of the handler; its locals are dropped
Respond(r, s) ==
    [req EXCEPT ![r].pc = "done", ![r].status = s, ![r].meta = <<>>,
                ![r].responses = @ + 1]

\* Date.now() and new Date(): the system clock does not run backwards
Now == clock..MaxClock

\* the records of the index of the running variant; none when metadata.json
\* cannot be parsed
IndexRecs == IF variant = "firestore" THEN uploads
             ELSE IF metaFile.ok THEN metaFile.recs ELSE <<>>

IndexReadable == variant = "firestore" \/ metaFile.ok

\* meta.sort((a, b) => new Date(b.receivedAt) - new Date(a.receivedAt)):
\* Array.prototype.sort is stable, records of equal receivedAt keep their order
jsAfter(x, y) == y.receivedAt >= x.receivedAt
\* orderBy("receivedAt", "desc"): equal receivedAt are ordered by document id,
\* descending
fsAfter(x, y) == y.receivedAt > x.receivedAt
                 \/ (y.receivedAt = x.receivedAt /\ y.id > x.id)

RECURSIVE insertSorted(_, _, _)
insertSorted(x, list, fs) ==
    IF list = <<>> THEN <<x>>
    ELSE IF (IF fs THEN fsAfter(x, Head(list)) ELSE jsAfter(x, Head(list)))
         THEN <<Head(list)>> \o insertSorted(x, Tail(list), fs)
         ELSE <<x>> \o list

\* GET /files without the sort
sortDesc_unsorted(list, fs) == list

RECURSIVE sortDesc(_, _)
sortDesc(list, fs) ==
    IF list = <<>> THEN <<>>
    ELSE insertSorted(list[Len(list)], sortDesc(SubSeq(list, 1, Len(list) - 1), fs), fs)


\* --------------------------------------------------------------- requests
\* the declared names and the headers of a mode: all of them where the
\* requests are concurrent, one accepted and one refused where the mode is
\* about something else
SeqNames == {<<"r", ".", "pdf">>, <<"r", ".", "exe">>}
SeqHeaders == {NoHeader, <<" ", "Bearer ", "good">>}

NamesOf == IF mode = "names" THEN AllNames
           ELSE IF mode = "conc" THEN FewNames ELSE SeqNames
HeadersOf == IF variant # "auth" THEN {NoHeader}
             ELSE IF mode = "conc" THEN Headers ELSE SeqHeaders

\* keys a client asks for: every stored name handed out so far, the name of
\* the sidecar, a parent-directory sequence, a name nobody stored
DownloadKeys ==
    {req[u].storedAs : u \in {q \in Reqs : req[q].storedAs # <<>>}}
        \cup {<<"metadata.json">>, <<".", ".">>, <<"nokey">>}

\* a request arrives; requests are numbered in order of arrival
Arrive(r, kind, fields) ==
    /\ req[r].pc = "idle"
    /\ \A q \in 1..(r - 1) : req[q].pc # "idle"
    /\ mode = "conc" => r <= NConc
    /\ mode = "restart" => r <= NBootReq
    /\ mode = "ping" => r <= NPingReq
    /\ mode # "conc" => \A q \in Reqs : ~InFlight(q)
    /\ mode = "names" => r <= 1 + NRetr /\ ((kind = "upload") <=> (r = 1))
    /\ req' = [req EXCEPT ![r] =
                  [fields EXCEPT
                      !.kind = kind,
                      !.boot = boots,
                      !.pc = IF variant = "auth" THEN "gate"
                             ELSE IF kind = "upload" THEN "multer" ELSE "handler"]]
    /\ UNCHANGED <<mode, variant, boots, ping, clock, metaFile, uploads, disk, cdn>>

\* POST /upload with a multipart body, with or without the field "file"
StartUpload(r) ==
    /\ req[r].pc = "idle"
    /\ mode = "names" => r = 1
    /\ \E h \in HeadersOf, f \in IF mode = "names" THEN {TRUE} ELSE BOOLEAN :
           \E n \in IF f THEN NamesOf ELSE {<<>>} :
               Arrive(r, "upload",
                      [IdleReq EXCEPT !.header = h, !.hasFile = f, !.name = n])

\* GET /files
StartFiles(r) ==
    \E h \in HeadersOf : Arrive(r, "files", [IdleReq EXCEPT !.header = h])

\* GET /download/:filename
StartDownload(r) ==
    \E h \in HeadersOf, k \in DownloadKeys :
        Arrive(r, "download",
               [IdleReq EXCEPT
                   !.header = h, !.key = k,
                   !.roundtrip = \E u \in Reqs :
                                    /\ req[u].kind = "upload"
                                    /\ req[u].pc = "done"
                                    /\ req[u].status = 200
                                    /\ req[u].storedAs = k])

\* ------------------------------------------------------------- middleware
\* a verifier that accepts every token
verifyIdToken_any(idToken) == TRUE

\* admin.auth().verifyIdToken
verifyIdToken(idToken) == idToken = "good"

\* authHeader.split("Bearer ")[1]: what follows the first "Bearer ",
\* undefined when the header holds no "Bearer "
splitBearer(authHeader) ==
    LET at == {i \in 1..Len(authHeader) : authHeader[i] = "Bearer "}
        first == CHOOSE i \in at : \A j \in at : i <= j
    IN  IF at = {} THEN "undefined"
        ELSE IF first = Len(authHeader) THEN ""
        ELSE authHeader[first + 1]

\* verifyToken: 401 without a header or when the header does not start with
\* " "; otherwise the token is what follows "Bearer ", and the request goes
\* on with the decoded token as req.user when the verifier accepts it
verifyToken(r) ==
    /\ req[r].pc = "gate"
    /\ LET authHeader == req[r].header
           startsWithSpace == authHeader # <<>> /\ authHeader[1] = " "
           idToken == splitBearer(authHeader)
           next == IF req[r].kind = "upload" THEN "multer" ELSE "handler"
       IN  req' = IF authHeader = NoHeader \/ ~startsWithSpace
                  THEN Respond(r, 401)
                  ELSE IF verifyIdToken(idToken)
                       THEN [req EXCEPT ![r].pc = next, ![r].user = "decoded"]
                       ELSE Respond(r, 401)
    /\ UNCHANGED <<mode, variant, boots, ping, clock, metaFile, uploads, disk, cdn>>

\* upload.single("file"): fileFilter, then the disk storage writes the file
\* under filename(); an error goes to next(err) and Express answers 500
Multer(r) ==
    /\ req[r].pc = "multer"
    /\ \E now \in Now, rnd \in 0..MaxRand, written \in BOOLEAN :
          LET unique == filename(now, rnd, req[r].name)
          IN  IF ~req[r].hasFile
              THEN /\ req' = [req EXCEPT ![r].pc = "handler"]
                   /\ UNCHANGED <<disk, clock>>
              ELSE IF ~fileFilter(req[r].name)
              THEN /\ req' = Respond(r, 500)
                   /\ UNCHANGED <<disk, clock>>
              ELSE IF written
              THEN /\ req' = [req EXCEPT ![r].pc = "handler",
                                         ![r].storedAs = unique]
                   /\ disk' = disk \cup {unique}
                   /\ clock' = now
              ELSE /\ req' = [Respond(r, 500) EXCEPT ![r].blobFailed = TRUE]
                   /\ disk' = disk
                   /\ clock' = now
    /\ UNCHANGED <<mode, variant, boots, ping, metaFile, uploads, cdn>>


\* ----------------------------------------------------------- POST /upload
Failed(r) == [Respond(r, 500) EXCEPT ![r].idxFailed = TRUE]

\* variants "auth" and "sync": the handler runs without yielding from its
\* entry to `await sendNotificationToAll`.  readFileSync may throw;
\* JSON.parse throws on a truncated file; writeFileSync opens the file with
\* flag "w", which truncates it, and then writes: it may throw before the
\* open ("writeFail") or after it ("writeTrunc").
UploadSync(r) ==
    /\ variant \in LocalDisk
    /\ req[r].kind = "upload" /\ req[r].pc = "handler"
    /\ \E receivedAt \in Now,
          outcome \in {"ok", "readFail", "writeFail", "writeTrunc"} :
          LET meta == Append(metaFile.recs, Record(r, 0, receivedAt))
          IN  IF ~req[r].hasFile
              THEN /\ req' = Respond(r, 400)
                   /\ UNCHANGED <<metaFile, clock>>
              ELSE /\ clock' = receivedAt
                   /\ IF outcome = "readFail" \/ ~metaFile.ok
                      THEN /\ req' = Failed(r)
                           /\ metaFile' = metaFile
                      ELSE IF outcome = "writeFail"
                      THEN /\ req' = Failed(r)
                           /\ metaFile' = metaFile
                      ELSE IF outcome = "writeTrunc"
                      THEN /\ req' = Failed(r)
                           /\ metaFile' = Truncated
                      ELSE /\ req' = [req EXCEPT ![r].pc = "notify",
                                                 ![r].receivedAt = receivedAt,
                                                 ![r].idxWrites = @ + 1,
                                                 ![r].pushes = @ + 1]
                           /\ metaFile' = [ok |-> TRUE, recs |-> meta]
    /\ UNCHANGED <<mode, variant, boots, ping, uploads, disk, cdn>>

\* UploadCdn whose no-file branch answers 400 and does not return
UploadCdn_noReturn(r) ==
    /\ variant \in Cdn
    /\ req[r].kind = "upload" /\ req[r].pc = "handler"
    /\ req' = IF ~req[r].hasFile
              THEN [Respond(r, 400) EXCEPT ![r].pc = "readStaged"]
              ELSE [req EXCEPT ![r].pc = "readStaged"]
    /\ UNCHANGED <<mode, variant, boots, ping, clock, metaFile, uploads, disk, cdn>>

\* variants "async" and "firestore": entry of the handler up to the first
\* await, fsPromises.readFile of the staged file
UploadCdn(r) ==
    /\ variant \in Cdn
    /\ req[r].kind = "upload" /\ req[r].pc = "handler"
    /\ req' = IF ~req[r].hasFile THEN Respond(r, 400)
              ELSE [req EXCEPT ![r].pc = "readStaged"]
    /\ UNCHANGED <<mode, variant, boots, ping, clock, metaFile, uploads, disk, cdn>>

\* fsPromises.readFile(filePath) settles; imagekit.upload starts
ReadStaged(r) ==
    /\ req[r].pc = "readStaged"
    /\ \E ok \in BOOLEAN :
          req' = IF ok /\ req[r].storedAs \in disk
                 THEN [req EXCEPT ![r].pc = "cdnUpload"]
                 ELSE Respond(r, 500)
    /\ UNCHANGED <<mode, variant, boots, ping, clock, metaFile, uploads, disk, cdn>>

\* CdnUpload that goes on after a rejected imagekit.upload
CdnUpload_ignoreReject(r) ==
    /\ req[r].pc = "cdnUpload"
    /\ \E ok \in BOOLEAN :
          IF ok
          THEN /\ req' = [req EXCEPT ![r].pc = "unlink"]
               /\ cdn' = cdn \cup {req[r].storedAs}
          ELSE /\ req' = [req EXCEPT ![r].pc = "unlink", ![r].blobFailed = TRUE]
               /\ cdn' = cdn
    /\ UNCHANGED <<mode, variant, boots, ping, clock, metaFile, uploads, disk>>

\* imagekit.upload settles; fsPromises.unlink starts
CdnUpload(r) ==
    /\ req[r].pc = "cdnUpload"
    /\ \E ok \in BOOLEAN :
          IF ok
          THEN /\ req' = [req EXCEPT ![r].pc = "unlink"]
               /\ cdn' = cdn \cup {req[r].storedAs}
          ELSE /\ req' = [Respond(r, 500) EXCEPT ![r].blobFailed = TRUE]
               /\ cdn' = cdn
    /\ UNCHANGED <<mode, variant, boots, ping, clock, metaFile, uploads, disk>>

\* Unlink that goes on to the index update after a rejected unlink
Unlink_ignoreFailure(r) ==
    /\ req[r].pc = "unlink"
    /\ \E receivedAt \in Now, ok \in BOOLEAN :
          /\ req' = [req EXCEPT
                        ![r].pc = IF variant = "async" THEN "readMeta"
                                  ELSE "dbAdd",
                        ![r].receivedAt = receivedAt,
                        ![r].unlinkFailed = ~(ok /\ req[r].storedAs \in disk)]
          /\ disk' = IF ok THEN disk \ {req[r].storedAs} ELSE disk
          /\ clock' = receivedAt
    /\ UNCHANGED <<mode, variant, boots, ping, metaFile, uploads, cdn>>

\* fsPromises.unlink settles; receivedAt is taken and the index update
\* starts.  A rejected unlink (also of a file that is no longer there) goes
\* to the catch of the handler.
Unlink(r) ==
    /\ req[r].pc = "unlink"
    /\ \E receivedAt \in Now, ok \in BOOLEAN :
          IF ok /\ req[r].storedAs \in disk
          THEN /\ req' = [req EXCEPT
                             ![r].pc = IF variant = "async" THEN "readMeta"
                                       ELSE "dbAdd",
                             ![r].receivedAt = receivedAt]
               /\ disk' = disk \ {req[r].storedAs}
               /\ clock' = receivedAt
          ELSE /\ req' = [Respond(r, 500) EXCEPT ![r].unlinkFailed = TRUE]
               /\ UNCHANGED <<disk, clock>>
    /\ UNCHANGED <<mode, variant, boots, ping, metaFile, uploads, cdn>>

\* variant "async": fsPromises.readFile(META_FILE) settles, JSON.parse,
\* meta.push; fsPromises.writeFile starts
ReadMeta(r) ==
    /\ req[r].pc = "readMeta"
    /\ \E ok \in BOOLEAN :
          req' = IF ok /\ metaFile.ok
                 THEN [req EXCEPT
                          ![r].pc = "openMeta",
                          ![r].meta = Append(metaFile.recs,
                                             Record(r, 0, req[r].receivedAt))]
                 ELSE Failed(r)
    /\ UNCHANGED <<mode, variant, boots, ping, clock, metaFile, uploads, disk, cdn>>

\* fsPromises.writeFile, first half: the file is opened with flag "w" and
\* is empty from then on
OpenMeta(r) ==
    /\ req[r].pc = "openMeta"
    /\ \E ok \in BOOLEAN :
          IF ok
          THEN /\ req' = [req EXCEPT ![r].pc = "writeMeta"]
               /\ metaFile' = Truncated
          ELSE /\ req' = Failed(r)
               /\ metaFile' = metaFile
    /\ UNCHANGED <<mode, variant, boots, ping, clock, uploads, disk, cdn>>

\* fsPromises.writeFile, second half: the document is written;
\* sendNotificationToAll starts
WriteMeta(r) ==
    /\ req[r].pc = "writeMeta"
    /\ \E ok \in BOOLEAN :
          IF ok
          THEN /\ req' = [req EXCEPT ![r].pc = "notify",
                                     ![r].meta = <<>>,
                                     ![r].idxWrites = @ + 1,
                                     ![r].pushes = @ + 1]
               /\ metaFile' = [ok |-> TRUE, recs |-> req[r].meta]
          ELSE /\ req' = Failed(r)
               /\ metaFile' = metaFile
    /\ UNCHANGED <<mode, variant, boots, ping, clock, uploads, disk, cdn>>

\* variant "firestore": db.collection("uploads").add settles; the document
\* gets an identifier no other document has
DocIds == 1..NReq

\* DbAdd with io.emit moved before the awaited add
DbAdd_emitFirst(r) ==
    /\ req[r].pc = "dbAdd"
    /\ \E ok \in BOOLEAN, id \in DocIds \ {uploads[i].id : i \in 1..Len(uploads)} :
          IF ok
          THEN /\ req' = [req EXCEPT ![r].pc = "notify",
                                     ![r].idxWrites = @ + 1,
                                     ![r].pushes = @ + 1]
               /\ uploads' = Append(uploads, Record(r, id, req[r].receivedAt))
          ELSE /\ req' = [Failed(r) EXCEPT ![r].emits = @ + 1]
               /\ uploads' = uploads
    /\ UNCHANGED <<mode, variant, boots, ping, clock, metaFile, disk, cdn>>

DbAdd(r) ==
    /\ req[r].pc = "dbAdd"
    /\ \E ok \in BOOLEAN, id \in DocIds \ {uploads[i].id : i \in 1..Len(uploads)} :
          IF ok
          THEN /\ req' = [req EXCEPT ![r].pc = "notify",
                                     ![r].idxWrites = @ + 1,
                                     ![r].pushes = @ + 1]
               /\ uploads' = Append(uploads, Record(r, id, req[r].receivedAt))
          ELSE /\ req' = Failed(r)
               /\ uploads' = uploads
    /\ UNCHANGED <<mode, variant, boots, ping, clock, metaFile, disk, cdn>>

\* admin.messaging().send settles, resolved or rejected (a rejection is
\* caught and logged in sendNotificationToAll); then io.emit, which returns
\* or throws into the catch of the handler; then res.json
Notify(r) ==
    /\ req[r].pc = "notify"
    /\ \E sent \in BOOLEAN, emitted \in BOOLEAN :
          req' = IF emitted
                 THEN [Respond(r, 200) EXCEPT ![r].emits = @ + 1,
                                              ![r].pushRejected = ~sent]
                 ELSE [Respond(r, 500) EXCEPT ![r].emits = @ + 1,
                                              ![r].pushRejected = ~sent,
                                              ![r].emitThrew = TRUE]
    /\ UNCHANGED <<mode, variant, boots, ping, clock, metaFile, uploads, disk, cdn>>

\* ------------------------------------------------------------- GET /files
\* an upload is between the two halves of fsPromises.writeFile(META_FILE)
WriteInProgress == \E q \in Reqs : req[q].pc = "writeMeta"

\* the read returned the content of a file that a writer has opened and not
\* yet written: JSON.parse throws on it
TornRead(ok) == ok /\ ~IndexReadable /\ WriteInProgress

Files(r) ==
    /\ req[r].kind = "files" /\ req[r].pc = "handler"
    /\ \E ok \in BOOLEAN :
          LET meta == sortDesc(IndexRecs, variant = "firestore")
          IN  IF ok /\ IndexReadable
              THEN req' = [Respond(r, 200) EXCEPT ![r].body = meta]
              ELSE req' = [Respond(r, 500) EXCEPT ![r].torn = TornRead(ok)]
    /\ UNCHANGED <<mode, variant, boots, ping, clock, metaFile, uploads, disk, cdn>>

\* ------------------------------------------------- GET /download/:filename
StoredKeys == {IndexRecs[i].storedAs : i \in 1..Len(IndexRecs)}

\* variants "auth" and "sync": fs.existsSync(path.join(UPLOAD_DIR, filename));
\* metadata.json lives in UPLOAD_DIR
DownloadLocal(r) ==
    /\ variant \in LocalDisk
    /\ req[r].kind = "download" /\ req[r].pc = "handler"
    /\ LET fname == req[r].key
           exists == fname \in disk \cup {<<"metadata.json">>}
       IN  req' = IF includesDotDot(fname) THEN Respond(r, 400)
                  ELSE [Respond(r, IF exists THEN 200 ELSE 404) EXCEPT
                           ![r].lookups = @ + 1,
                           ![r].indexed = fname \in StoredKeys]
    /\ UNCHANGED <<mode, variant, boots, ping, clock, metaFile, uploads, disk, cdn>>

\* DownloadCdn that looks the key up before it tests it for ".."
DownloadCdn_lookupFirst(r) ==
    /\ variant \in Cdn
    /\ req[r].kind = "download" /\ req[r].pc = "handler"
    /\ \E ok \in BOOLEAN :
          LET fname == req[r].key
              status == IF ~(ok /\ IndexReadable) THEN 500
                        ELSE IF includesDotDot(fname) THEN 400
                        ELSE IF fname \in StoredKeys THEN 302 ELSE 404
          IN  req' = [Respond(r, status) EXCEPT
                         ![r].lookups = @ + 1,
                         ![r].indexed = fname \in StoredKeys]
    /\ UNCHANGED <<mode, variant, boots, ping, clock, metaFile, uploads, disk, cdn>>

\* variants "async" and "firestore": the record is looked up in the index
\* and the client is redirected to the CDN
DownloadCdn(r) ==
    /\ variant \in Cdn
    /\ req[r].kind = "download" /\ req[r].pc = "handler"
    /\ \E ok \in BOOLEAN :
          LET fname == req[r].key
              status == IF ~(ok /\ IndexReadable) THEN 500
                        ELSE IF fname \in StoredKeys THEN 302 ELSE 404
          IN  req' = IF includesDotDot(fname) THEN Respond(r, 400)
                     ELSE [Respond(r, status) EXCEPT
                              ![r].lookups = @ + 1,
                              ![r].indexed = fname \in StoredKeys,
                              ![r].torn = TornRead(ok)]
    /\ UNCHANGED <<mode, variant, boots, ping, clock, metaFile, uploads, disk, cdn>>

\* ------------------------------------------------- HEAD /exists/:filename
\* the route of variant "firestore"
StartExists(r) ==
    /\ variant = "firestore"
    /\ \E k \in DownloadKeys : Arrive(r, "exists", [IdleReq EXCEPT !.key = k])

\* 400 on "..", else the query by storedAs: 404 when empty, 200 otherwise,
\* 500 when the query rejects
Exists(r) ==
    /\ variant = "firestore"
    /\ req[r].kind = "exists" /\ req[r].pc = "handler"
    /\ \E ok \in BOOLEAN :
          LET fname == req[r].key
              status == IF ~ok THEN 500
                        ELSE IF fname \in StoredKeys THEN 200 ELSE 404
          IN  req' = IF includesDotDot(fname) THEN Respond(r, 400)
                     ELSE [Respond(r, status) EXCEPT ![r].lookups = @ + 1]
    /\ UNCHANGED <<mode, variant, boots, ping, clock, metaFile, uploads, disk, cdn>>

\* ---------------------------------------------------------- specification
Next ==
    \E r \in Reqs :
          \/ StartUpload(r) \/ StartFiles(r) \/ StartDownload(r)
          \/ StartExists(r)
          \/ verifyToken(r) \/ Multer(r)
          \/ UploadSync(r) \/ UploadCdn(r) \/ ReadStaged(r) \/ CdnUpload(r)
          \/ Unlink(r) \/ ReadMeta(r) \/ OpenMeta(r) \/ WriteMeta(r)
          \/ DbAdd(r) \/ Notify(r)
          \/ Files(r) \/ DownloadLocal(r) \/ DownloadCdn(r) \/ Exists(r)

\* the process stops and starts again: the requests in flight are dropped
\* with their connections, the files and the database stay, and start-up
\* runs; uploads/metadata.json exists since the first start
Restart ==
    /\ mode = "restart"
    /\ boots < MaxBoots
    /\ boots' = boots + 1
    /\ req' = [r \in Reqs |->
                  IF InFlight(r)
                  THEN [req[r] EXCEPT !.pc = "dropped", !.meta = <<>>]
                  ELSE req[r]]
    /\ metaFile' = StartUp(TRUE, metaFile)
    /\ UNCHANGED <<mode, variant, ping, clock, uploads, disk, cdn>>

NextRestart == Next \/ Restart

\* the keep-alive loop of the variants "async" and "firestore"
\* Math.floor(Math.random() * (7 - 2 + 1) + 2) * 60 * 1000, with
\* Math.random() = rnd / RandSteps
pingDelay(rnd) == ((rnd * (7 - 2 + 1)) \div RandSteps + 2) * 60 * 1000

\* pingTargetServer with setTimeout at the end of the try block
PingSettle_rescheduleInTry ==
    /\ mode = "ping"
    /\ ping.gets > 0 /\ ping.count < MaxPings
    /\ \E ok \in BOOLEAN, rnd \in 0..(RandSteps - 1) :
          ping' = [gets |-> ping.gets - 1,
                   timers |-> IF ok THEN ping.timers + 1 ELSE ping.timers,
                   delay |-> IF ok THEN pingDelay(rnd) ELSE ping.delay,
                   count |-> ping.count + 1, lastOk |-> ok]
    /\ UNCHANGED <<mode, variant, boots, clock, metaFile, uploads, disk, cdn, req>>

\* pingTargetServer from the settling of axios.get to its end: the status is
\* broadcast (try or catch), the delay is drawn and setTimeout arms the next
\* ping
PingSettle ==
    /\ mode = "ping"
    /\ ping.gets > 0 /\ ping.count < MaxPings
    /\ \E ok \in BOOLEAN, rnd \in 0..(RandSteps - 1) :
          ping' = [gets |-> ping.gets - 1, timers |-> ping.timers + 1,
                   delay |-> pingDelay(rnd),
                   count |-> ping.count + 1, lastOk |-> ok]
    /\ UNCHANGED <<mode, variant, boots, clock, metaFile, uploads, disk, cdn, req>>

\* the timer fires: pingTargetServer runs up to await axios.get
TimerFire ==
    /\ mode = "ping"
    /\ ping.timers > 0
    /\ ping' = [ping EXCEPT !.timers = @ - 1, !.gets = @ + 1]
    /\ UNCHANGED <<mode, variant, boots, clock, metaFile, uploads, disk, cdn, req>>

NextPing == Next \/ PingSettle \/ TimerFire

Spec == Init /\ [][Next]_vars
SpecRestart == InitRestart /\ [][NextRestart]_vars
SpecPing == InitPing /\ [][NextPing]_vars
SpecSeq == InitSeq /\ [][Next]_vars
SpecNames == InitNames /\ [][Next]_vars

\* a step of the server that needs nothing from the push service: the event
\* loop runs every callback that is ready, and the file system, the CDN and
\* the database settle every call.  The arrival of a request and the
\* settling of admin.messaging().send (Notify) are left to the environment.
ServerStep ==
    \E r \in Reqs :
          \/ verifyToken(r) \/ Multer(r)
          \/ UploadSync(r) \/ UploadCdn(r) \/ ReadStaged(r) \/ CdnUpload(r)
          \/ Unlink(r) \/ ReadMeta(r) \/ OpenMeta(r) \/ WriteMeta(r)
          \/ DbAdd(r)
          \/ Files(r) \/ DownloadLocal(r) \/ DownloadCdn(r) \/ Exists(r)

SpecLive == Init /\ [][Next]_vars /\ WF_vars(ServerStep)

TypeOK ==
    /\ mode \in {"conc", "seq", "names", "restart", "ping"}
    /\ ping.gets + ping.timers <= 1
    /\ variant \in Variants
    /\ boots \in 0..MaxBoots
    /\ clock \in 0..MaxClock
    /\ metaFile.ok \in BOOLEAN
    /\ Len(metaFile.recs) <= NReq
    /\ Len(uploads) <= NReq
    /\ \A r \in Reqs : req[r].status \in {0, 200, 302, 400, 401, 404, 500}


\* ----------------------------------------------------------------- claims
Answered(r) == req[r].pc = "done"
Succeeded(r) == req[r].kind = "upload" /\ Answered(r) /\ req[r].status = 200

\* positions of the records of upload r in a list of records
RecordsOf(r, list) == {i \in 1..Len(list) : list[i].rid = r}

\* a parent-directory sequence: two dots in a row
HasParentSeq(key) == \E i \in 1..Len(key) : i < Len(key) /\ key[i] = "." /\ key[i + 1] = "."

\* the extension of a declared name, lower case: the text from its last dot
\* on, nothing when the name has no dot
DeclaredExt(name) ==
    LET dots == {i \in 1..Len(name) : name[i] = "."}
        last == CHOOSE i \in dots : \A j \in dots : j <= i
    IN  IF dots = {} THEN <<>>
        ELSE [i \in 1..(Len(name) - last + 1) |->
                 IF name[last + i - 1] = "PDF" THEN "pdf" ELSE name[last + i - 1]]

AllowList == {<<".", "pdf">>, <<".", "doc">>, <<".", "docx">>, <<".", "xls">>,
              <<".", "xlsx">>, <<".", "csv">>}

\* C1: once all the concurrent POST /upload requests of distinct valid files
\* have answered with success, the index holds exactly one record per
\* request and nothing else, in every variant and under every interleaving.
C1_NoLostUpdates ==
    (/\ \A r \in 1..NConc : Succeeded(r)
     /\ \A r, q \in 1..NConc : r # q => req[r].name # req[q].name)
    => /\ IndexReadable
       /\ Len(IndexRecs) = NConc
       /\ \A r \in 1..NConc : Cardinality(RecordsOf(r, IndexRecs)) = 1

\* C2: the index is append-only: a record that is visible in the index (its
\* write has completed, so that GET /files returns it) is in every later
\* readable index, unchanged; no interleaving of uploads removes it.
C2_AppendOnly ==
    \A r \in Reqs :
        (req[r].idxWrites > 0 /\ IndexReadable)
        => \E i \in 1..Len(IndexRecs) :
              /\ IndexRecs[i].rid = r
              /\ IndexRecs[i].originalName = req[r].name
              /\ IndexRecs[i].storedAs = req[r].storedAs
              /\ IndexRecs[i].receivedAt = req[r].receivedAt

\* C3: no two records of the index have the same storedAs, also when two
\* uploads of the same name draw the same timestamp and the same random
\* number.
C3_UniqueKeys ==
    \A i, j \in 1..Len(IndexRecs) :
        i # j => IndexRecs[i].storedAs # IndexRecs[j].storedAs

\* C4: no ghost records: when the blob write of an upload fails (the multer
\* disk write, or imagekit.upload), the request is answered with an error
\* and the index never holds a record of that upload.
C4_NoGhostRecords ==
    \A r \in Reqs :
        req[r].blobFailed
        => /\ Answered(r) /\ req[r].status = 500
           /\ req[r].idxWrites = 0
           /\ RecordsOf(r, metaFile.recs) = {}
           /\ RecordsOf(r, uploads) = {}

\* the CDN rejected the blob of one upload while the index holds the record
\* of another
C4_Witness ==
    \E r, q \in Reqs :
        /\ req[r].blobFailed /\ req[r].storedAs # <<>> /\ Answered(r)
        /\ RecordsOf(q, IndexRecs) # {}

\* C5: a success response to POST /upload is sent only after the record has
\* been written to the index; when reading or writing the index fails the
\* response is 500 and the step that fails leaves the index as it was.
C5_IndexFailure ==
    /\ [](\A r \in Reqs : Succeeded(r) => req[r].idxWrites = 1)
    /\ [][\A r \in Reqs :
            (req'[r].idxFailed /\ ~req[r].idxFailed)
            => /\ req'[r].pc = "done" /\ req'[r].status = 500
               /\ metaFile' = metaFile /\ uploads' = uploads]_vars

\* C6: an upload whose declared name has an extension outside the allow-list
\* (for example .exe, or none) is rejected before anything is persisted: the
\* request is answered with an error, no blob was written for it, the index
\* has no record of it and no notification was sent.
C6_UnsupportedType ==
    \A r \in Reqs :
        (/\ req[r].kind = "upload" /\ req[r].hasFile
         /\ DeclaredExt(req[r].name) \notin AllowList)
        => /\ req[r].pc \in {"gate", "multer", "done"}
           /\ Answered(r) => req[r].status \in {401, 500}
           /\ req[r].storedAs = <<>>
           /\ req[r].idxWrites = 0 /\ req[r].pushes = 0 /\ req[r].emits = 0
           /\ RecordsOf(r, IndexRecs) = {}
           /\ mode = "names" => disk = {} /\ cdn = {} /\ IndexRecs = <<>>

\* a file with extension .exe was rejected by the upload middleware
C6_Witness ==
    \E r \in Reqs :
        /\ req[r].kind = "upload" /\ Answered(r) /\ req[r].status = 500
        /\ Len(req[r].name) > 2
        /\ req[r].name[Len(req[r].name)] = "exe"
        /\ req[r].name[Len(req[r].name) - 1] = "."

\* C7: round trip: GET /download/<storedAs> with the storedAs of a success
\* response of POST /upload is never answered 400 or 404, whatever the
\* accepted original name.
C7_RoundTrip ==
    \A r \in Reqs :
        (req[r].kind = "download" /\ Answered(r) /\ req[r].roundtrip)
        => req[r].status \notin {400, 404}

\* C8: GET /download/<key> serves a file only when the key is the storedAs
\* of a record of the index; orphan blobs and metadata.json are not served.
C8_OnlyIndexedServed ==
    \A r \in Reqs :
        (req[r].kind = "download" /\ Answered(r) /\ req[r].status \in {200, 302})
        => req[r].indexed

\* C9: GET /download/<key> with a key that holds ".." is answered 400 (401
\* by the gate of variant "auth") without any lookup in the index or in the
\* blob store.
C9_InvalidKey ==
    \A r \in Reqs :
        (req[r].kind = "download" /\ HasParentSeq(req[r].key))
        => /\ req[r].lookups = 0
           /\ Answered(r) =>
                 \/ req[r].status = 400
                 \/ variant = "auth" /\ req[r].status = 401

\* a download of ".." was answered 400
C9_Witness ==
    \E r \in Reqs :
        /\ req[r].kind = "download" /\ HasParentSeq(req[r].key)
        /\ Answered(r) /\ req[r].status = 400

\* C10: after N sequential successful uploads on an empty index, GET /files
\* returns exactly the N records, each once, ordered by receivedAt
\* descending.
C10_ListAfterUploads ==
    \A f \in Reqs :
        (/\ req[f].kind = "files" /\ Answered(f) /\ req[f].status = 200
         /\ \A u \in 1..(f - 1) : Succeeded(u))
        => LET list == req[f].body
           IN  /\ Len(list) = f - 1
               /\ \A u \in 1..(f - 1) : Cardinality(RecordsOf(u, list)) = 1
               /\ \A i \in 1..Len(list) :
                     /\ list[i].originalName = req[list[i].rid].name
                     /\ list[i].storedAs = req[list[i].rid].storedAs
                     /\ list[i].receivedAt = req[list[i].rid].receivedAt
               /\ \A i \in 1..(Len(list) - 1) :
                     list[i].receivedAt >= list[i + 1].receivedAt

\* GET /files listed two uploads, the later one first
C10_Witness ==
    \E f \in Reqs :
        /\ req[f].kind = "files" /\ Answered(f) /\ req[f].status = 200
        /\ f = 3 /\ Succeeded(1) /\ Succeeded(2)
        /\ Len(req[f].body) = 2
        /\ req[f].body[1].rid = 2
        /\ req[f].body[1].receivedAt > req[f].body[2].receivedAt

\* C11: tie-break of the listing: of two records of equal receivedAt,
\* GET /files returns the one appended later before the one appended earlier
\* (the uploads are sequential and successful here, so the upload of a
\* later request is appended later).
C11_TieBreak ==
    \A f \in Reqs :
        (/\ req[f].kind = "files" /\ Answered(f) /\ req[f].status = 200
         /\ \A u \in 1..(f - 1) : Succeeded(u))
        => \A i, j \in 1..Len(req[f].body) :
              (i < j /\ req[f].body[i].receivedAt = req[f].body[j].receivedAt)
              => req[f].body[i].rid > req[f].body[j].rid

\* C12: a failure of the notification fan-out (the push send rejects, or the
\* socket broadcast throws) does not change the outcome of the upload: the
\* response is a success and the record is in the index.
C12_FanoutFailure ==
    \A r \in Reqs :
        (req[r].pushRejected \/ req[r].emitThrew)
        => /\ Succeeded(r)
           /\ IndexReadable => RecordsOf(r, IndexRecs) # {}

\* C13: the fan-out does not block the response: once the record of an
\* upload is in the index the request is eventually answered, also when the
\* push send never settles.
C13_NonBlocking ==
    \A r \in Reqs : (req[r].idxWrites > 0) ~> Answered(r)

\* C14: a GET /files or GET /download that runs while an upload writes the
\* index never reads the index truncated or half written and never fails on
\* a parse error caused by that write.
C14_NoTornRead ==
    \A r \in Reqs : ~req[r].torn

\* C15: receivedAt is non-decreasing along the append order of the index.
C15_Monotonic ==
    \A i, j \in 1..Len(IndexRecs) :
        i < j => IndexRecs[i].receivedAt <= IndexRecs[j].receivedAt

\* a header the gate has to refuse: none, or one whose token the verifier
\* rejects
Refused(header) == header = NoHeader \/ header[Len(header)] # "good"

\* C16: with the gate enabled, a request without Authorization header or
\* with a token the verifier rejects is answered 401 and has no effect: it
\* never reaches the upload middleware or a handler, no blob is written for
\* it, the index has no record of it and no notification is sent.
C16_GateRefuses ==
    \A r \in Reqs :
        (variant = "auth" /\ req[r].kind # "none" /\ Refused(req[r].header))
        => /\ req[r].pc \in {"gate", "done"}
           /\ Answered(r) => req[r].status = 401
           /\ req[r].storedAs = <<>> /\ req[r].lookups = 0
           /\ req[r].idxWrites = 0 /\ req[r].pushes = 0 /\ req[r].emits = 0
           /\ RecordsOf(r, metaFile.recs) = {}
           /\ (\A q \in Reqs : q # r => Refused(req[q].header))
                 => disk = {} /\ metaFile = EmptyMeta

\* the verifier rejected the token of an upload, of a listing or of a
\* download, and the gate answered 401
C16_Witness ==
    \E r \in Reqs :
        /\ variant = "auth" /\ Answered(r) /\ req[r].status = 401
        /\ req[r].header = <<" ", "Bearer ", "bad">>

\* C17: with the gate enabled, a request whose header is "Bearer <token>"
\* with a token the verifier accepts passes the gate: it is not answered 401
\* and the decoded principal is attached to it when it leaves the gate.
C17_GateAccepts ==
    \A r \in Reqs :
        (variant = "auth" /\ req[r].header = <<"Bearer ", "good">>)
        => /\ ~(Answered(r) /\ req[r].status = 401)
           /\ req[r].pc \notin {"idle", "gate"} => req[r].user = "decoded"

\* C18: POST /upload answers 400 when the request carries no file and when
\* the extension of the file is not allowed (behind the gate, when there is
\* one); 500 is kept for storage and index failures.
C18_ClientErrors ==
    \A r \in Reqs :
        (req[r].kind = "upload" /\ Answered(r) /\ req[r].status # 401)
        => LET clientError == \/ ~req[r].hasFile
                              \/ DeclaredExt(req[r].name) \notin AllowList
           IN  /\ clientError => req[r].status = 400
               /\ req[r].status = 500 => ~clientError

C20_OneAttempt ==
    \A r \in Reqs :
        req[r].kind = "upload"
        => /\ req[r].idxWrites <= 1 /\ req[r].pushes <= 1 /\ req[r].emits <= 1
           /\ Cardinality(RecordsOf(r, IndexRecs)) <= 1
           /\ Succeeded(r) => req[r].idxWrites = 1
           /\ (Answered(r) /\ req[r].status # 200) => req[r].idxWrites = 0

\* the "fileUploaded" broadcast of upload r went out: io.emit was called and
\* returned
Emitted(r) == req[r].emits > 0 /\ ~req[r].emitThrew

C23_UnlinkFailure ==
    /\ [](\A r \in Reqs :
            req[r].unlinkFailed
            => /\ Answered(r) /\ req[r].status = 500
               /\ req[r].storedAs \in cdn
               /\ req[r].idxWrites = 0
               /\ RecordsOf(r, metaFile.recs) = {}
               /\ RecordsOf(r, uploads) = {})
    /\ [][\A k \in (disk \ disk') : variant \in Cdn /\ k \in cdn]_vars

\* the deletion of the staged file failed after the CDN took the blob
C23_Witness ==
    \E r \in Reqs :
        /\ req[r].unlinkFailed /\ req[r].storedAs \in disk
        /\ req[r].storedAs \in cdn /\ Answered(r)

\* C24: every handler sends exactly one response per request on every path:
\* a request is never answered twice, and a request whose handler has ended
\* has been answered once.
C24_OneResponse ==
    \A r \in Reqs :
        /\ req[r].responses <= 1
        /\ Answered(r) <=> req[r].responses = 1
        /\ Answered(r) => req[r].status \in {200, 302, 400, 401, 404, 500}

\* a HEAD /exists was answered 200 and an upload without file 400
C24_Witness ==
    \E r, q \in Reqs :
        /\ req[r].kind = "exists" /\ Answered(r) /\ req[r].status = 200
        /\ req[q].kind = "upload" /\ Answered(q) /\ req[q].status = 400
        /\ req[r].responses = 1 /\ req[q].responses = 1

====
